---- MODULE Spec2Model ----
(***************************************************************************)
(* Content-addressed file ingestion of the File Manager API (example-api): *)
(* the upload and delete route handlers (routes/files.ts) running on any   *)
(* number of instances against one shared PostgreSQL table `files`         *)
(* (services/database.ts, 001_create_files_table.sql) and one shared       *)
(* ./uploads directory.                                                    *)
(*                                                                         *)
(* Every `await` on the database or the filesystem is a point where another*)
(* request may run, so a handler is a sequence of actions, one per         *)
(* database transaction statement group or filesystem call.  Statements of *)
(* one transaction that cannot be told apart from an atomic execution      *)
(* under READ COMMITTED row locking are taken in a single action:          *)
(*   - insertFile: SELECT ... FOR UPDATE finds nothing to lock when no row *)
(*     matches, so the SELECT and the INSERT are separate actions; the     *)
(*     INSERT blocks on the unique index until a competing transaction     *)
(*     ends and is therefore atomic with its COMMIT;                       *)
(*   - deleteFile: the rows matched by SELECT ... FOR UPDATE stay locked   *)
(*     until the DELETE, which re-reads the table, so the transaction is   *)
(*     one action.                                                         *)
(***************************************************************************)
EXTENDS FiniteSets, Integers, Sequences, TLC

(* ---------------------------- bounds ----------------------------------- *)
\* number of HTTP requests (uploads and deletes together) in one behaviour
MaxReq == 3
\* number of distinct `${timestamp}_${randomId}` prefixes Date.now() and
\* Math.random() may produce
MaxStamp == 2

(* ------------------------- program constants --------------------------- *)
\* const maxSize = 100 * 1024 * 1024
maxSize == 104857600

(* --------------------------- input domains ----------------------------- *)
Reqs == 1..MaxReq
Stamps == 1..MaxStamp
\* file.name / the :filename route parameter
Names == {"a", "b"}
\* the uploaded File objects' contents: bytes (an opaque payload) and size
Contents == {[bytes |-> 1, size |-> 5], [bytes |-> 2, size |-> 5]}
\* formData.get("file") is null when the field is missing
NoFile == [bytes |-> 0, size |-> 0]
\* a File of zero bytes: an object, so `!file` is false
EmptyFile == [bytes |-> 4, size |-> 0]
\* the storage keys tried for a payload (an empty payload never gets a row,
\* one key stands for all)
StampsFor(file) == IF file = EmptyFile THEN {1} ELSE Stamps
\* a File one byte larger than maxSize
Oversized == [bytes |-> 3, size |-> 104857601]
NoRec == [id |-> 0]
NoKey == <<0, "">>
NoBlob == 0

\* SHA-256 of the payload, hex encoded: a digest that differs for different
\* payloads of the model
calculateChecksum(file) == <<"sha256", file.bytes * 31 + 7>>

\* mutant: the size validation is missing
TooLargeNever(file) == FALSE

\* if (file.size > maxSize)
TooLarge(file) == file.size > maxSize

\* `${timestamp}_${randomId}_${file.name}`
GenFilename(stamp, name) == <<stamp, name>>
Keys == {GenFilename(s, n) : s \in Stamps, n \in Names}
\* process.env.INSTANCE_ID of the process that serves request r: two
\* instances take the requests in turn
Instances == {"app-1", "app-2"}
instanceId(r) == IF r % 2 = 1 THEN "app-1" ELSE "app-2"

(* ------------------------------ state ---------------------------------- *)
VARIABLES
    files,      \* the rows of table `files`
    blobs,      \* ./uploads: storage key -> payload stored there, or NoBlob
    clock,      \* the database's NOW() / the source of fresh row ids
    req,        \* per request: the handler's local variables and position
    obs,        \* per request: history of what the handler did (not program state)
    faults      \* whether a database / filesystem failure has been injected

vars == <<files, blobs, clock, req, obs, faults>>

IdleReq == [kind |-> "none", pc |-> "idle", name |-> "", file |-> NoFile,
            filename |-> NoKey, txStart |-> 0, fileRecord |-> NoRec,
            status |-> 0, error |-> "", body |-> NoBlob, locked |-> {},
            stats |-> [totalFiles |-> -1, totalSize |-> -1],
            instanceDistribution |-> <<>>]
IdleObs == [isNew |-> FALSE, wrote |-> FALSE, comp |-> "none",
            insertErr |-> "none", hashed |-> FALSE, stats |-> "none"]

Init ==
    /\ files = {}
    /\ blobs = [k \in Keys |-> NoBlob]
    /\ clock = 1
    /\ req = [r \in Reqs |-> IdleReq]
    /\ obs = [r \in Reqs |-> IdleObs]
    /\ faults = [db |-> FALSE, fs |-> FALSE]

(* ------------------------- the files table ----------------------------- *)
\* SELECT ... WHERE checksum = $1 AND size = $2
SelectByChecksumSize(tbl, checksum, size) ==
    {row \in tbl : row.checksum = checksum /\ row.size = size}

\* SELECT ... WHERE original_name = $1
SelectByOriginalName(tbl, name) ==
    {row \in tbl : row.original_name = name}

\* mutant: the unique index on (checksum, size) is missing
NoChecksumSizeIndex(tbl, row) == FALSE

\* CREATE UNIQUE INDEX idx_files_checksum_size ON files(checksum, size)
ViolatesChecksumSizeUnique(tbl, row) ==
    SelectByChecksumSize(tbl, row.checksum, row.size) # {}

\* filename VARCHAR(255) NOT NULL UNIQUE
ViolatesFilenameUnique(tbl, row) ==
    \E other \in tbl : other.filename = row.filename

\* mutant: the table has no CHECK (size > 0)
NoSizeCheck(row) == FALSE

\* size BIGINT NOT NULL CHECK (size > 0)
ViolatesSizeCheck(row) == ~(row.size > 0)

\* the error the INSERT raises, "none" when the row is accepted
InsertError(tbl, row) ==
    IF ViolatesSizeCheck(row) THEN "check_size"
    ELSE IF ViolatesFilenameUnique(tbl, row) THEN "dup_filename"
    ELSE IF ViolatesChecksumSizeUnique(tbl, row) THEN "dup_checksum_size"
    ELSE "none"

\* the row INSERT ... RETURNING * builds from fileData; id and uploaded_at
\* take their column defaults (gen_random_uuid(), NOW() of the transaction)
NewRow(fileData, t) ==
    [id |-> t, filename |-> fileData.filename,
     original_name |-> fileData.original_name, size |-> fileData.size,
     checksum |-> fileData.checksum, uploaded_at |-> t,
     uploaded_instance |-> fileData.uploaded_instance]

\* mutant: the duplicate check also requires the same original_name
insertFileSelectSameName(tbl, fileData) ==
    {row \in SelectByChecksumSize(tbl, fileData.checksum, fileData.size) :
        row.original_name = fileData.original_name}

\* insertFile, first statement: the rows SELECT ... FOR UPDATE returns
insertFileSelect(tbl, fileData) ==
    SelectByChecksumSize(tbl, fileData.checksum, fileData.size)

\* insertFile, INSERT and COMMIT: the new table, the record returned (NoRec
\* for null: the catch block swallows every error) and the error raised
insertFileInsert(tbl, fileData, t, dbFails) ==
    LET row == NewRow(fileData, t)
        err == IF dbFails THEN "db" ELSE InsertError(tbl, row)
    IN IF err = "none"
       THEN [tbl |-> tbl \cup {row}, rec |-> row, err |-> err]
       ELSE [tbl |-> tbl, rec |-> NoRec, err |-> err]

\* mutant: the lookup forgets WHERE original_name = $1
getFileIgnoringName(tbl, name, dbFails) ==
    IF dbFails \/ tbl = {} THEN NoRec
    ELSE CHOOSE row \in tbl :
             \A other \in tbl : other.uploaded_at <= row.uploaded_at

\* mutant: ORDER BY uploaded_at ASC, the oldest row is served
getFileOldest(tbl, name, dbFails) ==
    LET rows == SelectByOriginalName(tbl, name)
    IN IF dbFails \/ rows = {} THEN NoRec
       ELSE CHOOSE row \in rows :
                \A other \in rows : row.uploaded_at <= other.uploaded_at

\* getFileByOriginalName: ORDER BY uploaded_at DESC LIMIT 1; null on no row
\* and on a database error
getFileByOriginalName(tbl, name, dbFails) ==
    LET rows == SelectByOriginalName(tbl, name)
    IN IF dbFails \/ rows = {} THEN NoRec
       ELSE CHOOSE row \in rows :
                \A other \in rows : other.uploaded_at <= row.uploaded_at

\* mutant: the transaction reports success without its DELETE statement
deleteFileWithoutDelete(tbl, name, dbFails) ==
    [tbl |-> tbl,
     deleted |-> ~(dbFails \/ SelectByOriginalName(tbl, name) = {})]

\* mutant: the DELETE removes only the most recent row of the name
deleteFileMostRecentOnly(tbl, name, dbFails) ==
    IF dbFails \/ SelectByOriginalName(tbl, name) = {}
    THEN [tbl |-> tbl, deleted |-> FALSE]
    ELSE [tbl |-> tbl \ {getFileByOriginalName(tbl, name, FALSE)},
          deleted |-> TRUE]

\* mutant: rows are not deleted but renamed to a tombstone name
deleteFileSoft(tbl, name, dbFails) ==
    IF dbFails \/ SelectByOriginalName(tbl, name) = {}
    THEN [tbl |-> tbl, deleted |-> FALSE]
    ELSE [tbl |-> {IF row.original_name = name
                   THEN [row EXCEPT !.original_name = ""] ELSE row :
                   row \in tbl},
          deleted |-> TRUE]

\* deleteFile: throws "File not found" when no row has the name, else
\* DELETE FROM files WHERE original_name = $1; false on any error
deleteFile(tbl, name, dbFails) ==
    IF dbFails \/ SelectByOriginalName(tbl, name) = {}
    THEN [tbl |-> tbl, deleted |-> FALSE]
    ELSE [tbl |-> tbl \ SelectByOriginalName(tbl, name), deleted |-> TRUE]

RECURSIVE SumSize(_)
\* SUM(size) over a set of rows
SumSize(rows) ==
    IF rows = {} THEN 0
    ELSE LET row == CHOOSE x \in rows : TRUE
         IN row.size + SumSize(rows \ {row})

NoStats == [totalFiles |-> -1, totalSize |-> -1]

\* getStorageStats: COUNT(*) and SUM(size) of the table; null on a database
\* error (the catch block swallows it)
getStorageStats(tbl, dbFails) ==
    IF dbFails THEN NoStats
    ELSE [totalFiles |-> Cardinality(tbl), totalSize |-> SumSize(tbl)]

(* --------------------------- bookkeeping ------------------------------- *)
\* requests are numbered in the order they arrive
CanStart(r) ==
    /\ req[r].kind = "none"
    /\ \A q \in Reqs : q < r => req[q].kind # "none"

Respond(r, status, error) ==
    [req[r] EXCEPT !.pc = "done", !.status = status, !.error = error]

NoteDb(f) == [faults EXCEPT !.db = faults.db \/ f]
NoteFs(f) == [faults EXCEPT !.fs = faults.fs \/ f]

(* ------------------- POST /api/files (upload handler) ------------------ *)
\* the FileInsert the handler passes to dbService.insertFile
FileData(r) ==
    [filename |-> req[r].filename, original_name |-> req[r].name,
     size |-> req[r].file.size, checksum |-> calculateChecksum(req[r].file),
     uploaded_instance |-> instanceId(r)]

\* Entry of the handler up to and including insertFile's SELECT ... FOR
\* UPDATE: missing file -> 400, oversized -> 413, then checksum, storage key
\* and the duplicate check.
UploadBegin(r) ==
    /\ CanStart(r)
    /\ \E name \in Names, file \in Contents \cup {NoFile, Oversized, EmptyFile},
          dbFails \in BOOLEAN : \E stamp \in StampsFor(file) :
        LET started == [req[r] EXCEPT !.kind = "upload", !.name = name,
                                      !.file = file]
            fileData == [filename |-> GenFilename(stamp, name),
                         original_name |-> name, size |-> file.size,
                         checksum |-> calculateChecksum(file),
                         uploaded_instance |-> instanceId(r)]
            existing == insertFileSelect(files, fileData)
        IN
        IF file = NoFile THEN
            /\ stamp = 1 /\ ~dbFails
            /\ req' = [req EXCEPT ![r] = [started EXCEPT !.pc = "done",
                            !.status = 400, !.error = "No file provided"]]
            /\ UNCHANGED <<files, blobs, clock, obs, faults>>
        ELSE IF TooLarge(file) THEN
            /\ stamp = 1 /\ ~dbFails
            /\ req' = [req EXCEPT ![r] = [started EXCEPT !.pc = "done",
                            !.status = 413,
                            !.error = "File too large (max 100MB)"]]
            /\ UNCHANGED <<files, blobs, clock, obs, faults>>
        ELSE IF dbFails THEN
            \* the SELECT throws: insertFile returns null
            /\ req' = [req EXCEPT ![r] = [started EXCEPT
                            !.filename = fileData.filename, !.pc = "done",
                            !.status = 409,
                            !.error = "Failed to save file metadata or duplicate detected"]]
            /\ obs' = [obs EXCEPT ![r].insertErr = "db", ![r].hashed = TRUE]
            /\ faults' = NoteDb(TRUE)
            /\ UNCHANGED <<files, blobs, clock>>
        ELSE IF existing # {} THEN
            \* existing.length > 0: return the existing row, no INSERT
            /\ req' = [req EXCEPT ![r] = [started EXCEPT
                            !.filename = fileData.filename, !.pc = "write",
                            !.fileRecord = CHOOSE row \in existing : TRUE]]
            /\ obs' = [obs EXCEPT ![r].hashed = TRUE]
            /\ UNCHANGED <<files, blobs, clock, faults>>
        ELSE
            /\ req' = [req EXCEPT ![r] = [started EXCEPT
                            !.filename = fileData.filename, !.pc = "insert",
                            !.txStart = clock]]
            /\ clock' = clock + 1
            /\ obs' = [obs EXCEPT ![r].hashed = TRUE]
            /\ UNCHANGED <<files, blobs, faults>>

\* insertFile's INSERT ... RETURNING * and COMMIT; a null result is the 409
UploadInsert(r) ==
    /\ req[r].kind = "upload" /\ req[r].pc = "insert"
    /\ \E dbFails \in BOOLEAN :
        LET res == insertFileInsert(files, FileData(r), req[r].txStart, dbFails)
        IN /\ files' = res.tbl
           /\ obs' = [obs EXCEPT ![r].insertErr = res.err,
                                 ![r].isNew = (res.rec # NoRec)]
           /\ faults' = NoteDb(dbFails)
           /\ req' = [req EXCEPT ![r] =
                 IF res.rec = NoRec
                 THEN Respond(r, 409,
                        "Failed to save file metadata or duplicate detected")
                 ELSE [req[r] EXCEPT !.pc = "write", !.fileRecord = res.rec]]
           /\ UNCHANGED <<blobs, clock>>

\* mutant: the handler answers 201 without having stored the payload
UploadWriteOkSkipsWrite(r) ==
    /\ req[r].kind = "upload" /\ req[r].pc = "write"
    /\ req' = [req EXCEPT ![r] = Respond(r, 201, "")]
    /\ UNCHANGED <<files, blobs, clock, obs, faults>>

\* mutant: a failed statistics refresh throws into the handler's outer catch
UploadWriteOkStatsThrows(r) ==
    /\ req[r].kind = "upload" /\ req[r].pc = "write"
    /\ \E statsFails \in BOOLEAN :
        /\ blobs' = [blobs EXCEPT ![req[r].filename] = req[r].file.bytes]
        /\ obs' = [obs EXCEPT ![r].wrote = TRUE,
                              ![r].stats = IF statsFails THEN "failed"
                                           ELSE "ok"]
        /\ faults' = NoteDb(statsFails)
        /\ req' = [req EXCEPT ![r] =
                       IF statsFails
                       THEN Respond(r, 500, "Failed to upload file")
                       ELSE Respond(r, 201, "")]
        /\ UNCHANGED <<files, clock>>

\* await Bun.write(filepath, file) succeeds; then the statistics refresh:
\* getStorageStats reads the table and returns null on failure, and the
\* handler only feeds a non-null result to the usage gauge (metrics are not
\* part of the model); 201 with fileRecord.id
UploadWriteOk(r) ==
    /\ req[r].kind = "upload" /\ req[r].pc = "write"
    /\ \E statsFails \in BOOLEAN :
        LET stats == getStorageStats(files, statsFails)
        IN /\ blobs' = [blobs EXCEPT ![req[r].filename] = req[r].file.bytes]
           /\ obs' = [obs EXCEPT ![r].wrote = TRUE,
                                 ![r].stats = IF stats = NoStats THEN "failed"
                                              ELSE "ok"]
           /\ faults' = NoteDb(statsFails)
           /\ req' = [req EXCEPT ![r] = Respond(r, 201, "")]
           /\ UNCHANGED <<files, clock>>

\* the JSON body of the 201 response
UploadResponseBody(r) ==
    [message |-> "File uploaded successfully", id |-> req[r].fileRecord.id,
     filename |-> req[r].name, size |-> req[r].file.size,
     checksum |-> calculateChecksum(req[r].file),
     uploadedAt |-> req[r].fileRecord.uploaded_at]

\* history only: the record the handler holds is still in the table and no
\* blob is stored under its key
OrphanLeft(tbl, rec) ==
    \E row \in tbl : row.id = rec.id /\ blobs[row.filename] = NoBlob

\* Bun.write throws: catch (diskError) runs dbService.deleteFile(file.name),
\* ignores its result and answers 500
UploadWriteFail(r) ==
    /\ req[r].kind = "upload" /\ req[r].pc = "write"
    /\ \E dbFails \in BOOLEAN :
        LET res == deleteFile(files, req[r].name, dbFails)
        IN /\ files' = res.tbl
           /\ obs' = [obs EXCEPT ![r].comp =
                          IF res.deleted THEN "ok"
                          ELSE IF OrphanLeft(res.tbl, req[r].fileRecord)
                               THEN "orphaned" ELSE "failed"]
           /\ faults' = [db |-> faults.db \/ dbFails, fs |-> TRUE]
           /\ req' = [req EXCEPT ![r] =
                          Respond(r, 500, "Failed to save file to disk")]
           /\ UNCHANGED <<blobs, clock>>

(* --------------- DELETE /api/files/:filename (delete handler) ---------- *)
\* getFileByOriginalName(requestedFilename); 404 when it returns null
DeleteBegin(r) ==
    /\ CanStart(r)
    /\ \E name \in Names, dbFails \in BOOLEAN :
        LET started == [req[r] EXCEPT !.kind = "delete", !.name = name]
            fileRecord == getFileByOriginalName(files, name, dbFails)
        IN /\ faults' = NoteDb(dbFails)
           /\ req' = [req EXCEPT ![r] =
                 IF fileRecord = NoRec
                 THEN [started EXCEPT !.pc = "done", !.status = 404,
                                      !.error = "File not found"]
                 ELSE [started EXCEPT !.pc = "deleteMeta",
                                      !.fileRecord = fileRecord,
                                      !.filename = fileRecord.filename]]
           /\ UNCHANGED <<files, blobs, clock, obs>>

\* mutant: the blob is removed before the metadata delete is attempted
DeleteMetaRmFirst(r) ==
    /\ req[r].kind = "delete" /\ req[r].pc = "deleteMeta"
    /\ \E dbFails \in BOOLEAN :
        LET res == deleteFile(files, req[r].name, dbFails)
        IN /\ files' = res.tbl
           /\ blobs' = [blobs EXCEPT ![req[r].filename] = NoBlob]
           /\ faults' = NoteDb(dbFails)
           /\ req' = [req EXCEPT ![r] =
                 IF res.deleted
                 THEN [req[r] EXCEPT !.pc = "rm"]
                 ELSE Respond(r, 500, "Failed to delete file metadata")]
           /\ UNCHANGED <<clock, obs>>

\* dbService.deleteFile(requestedFilename); 500 when it returns false
DeleteMeta(r) ==
    /\ req[r].kind = "delete" /\ req[r].pc = "deleteMeta"
    /\ \E dbFails \in BOOLEAN :
        LET res == deleteFile(files, req[r].name, dbFails)
        IN /\ files' = res.tbl
           /\ faults' = NoteDb(dbFails)
           /\ req' = [req EXCEPT ![r] =
                 IF res.deleted
                 THEN [req[r] EXCEPT !.pc = "rm"]
                 ELSE Respond(r, 500, "Failed to delete file metadata")]
           /\ UNCHANGED <<blobs, clock, obs>>

\* Bun.spawn(["rm", filepath]): the blob is removed, or rm fails and the
\* failure is only logged; then the statistics refresh; 200 either way
DeleteRm(r) ==
    /\ req[r].kind = "delete" /\ req[r].pc = "rm"
    /\ \E rmFails \in BOOLEAN, statsFails \in BOOLEAN :
        LET stats == getStorageStats(files, statsFails)
        IN /\ rmFails => blobs[req[r].filename] # NoBlob
           /\ blobs' = IF rmFails THEN blobs
                       ELSE [blobs EXCEPT ![req[r].filename] = NoBlob]
           /\ obs' = [obs EXCEPT ![r].stats = IF stats = NoStats THEN "failed"
                                              ELSE "ok"]
           /\ faults' = [db |-> faults.db \/ statsFails,
                         fs |-> faults.fs \/ rmFails]
           /\ req' = [req EXCEPT ![r] = Respond(r, 200, "")]
           /\ UNCHANGED <<files, clock>>

(* ------------- GET /api/files/:filename (download handler) ------------- *)
\* getFileByOriginalName(requestedFilename); 404 when it returns null
DownloadBegin(r) ==
    /\ CanStart(r)
    /\ \E name \in Names, dbFails \in BOOLEAN :
        LET started == [req[r] EXCEPT !.kind = "download", !.name = name]
            fileRecord == getFileByOriginalName(files, name, dbFails)
        IN /\ faults' = NoteDb(dbFails)
           /\ req' = [req EXCEPT ![r] =
                 IF fileRecord = NoRec
                 THEN [started EXCEPT !.pc = "done", !.status = 404,
                                      !.error = "File not found"]
                 ELSE [started EXCEPT !.pc = "read",
                                      !.fileRecord = fileRecord,
                                      !.filename = fileRecord.filename]]
           /\ UNCHANGED <<files, blobs, clock, obs>>

\* the response for a found record: 404 when Bun.file(filepath).exists() is
\* false, else the blob with the record's X-File-Checksum header
downloadRead(store, fileRecord) ==
    IF store[fileRecord.filename] = NoBlob
    THEN [status |-> 404, body |-> NoBlob, checksum |-> <<>>]
    ELSE [status |-> 200, body |-> store[fileRecord.filename],
          checksum |-> fileRecord.checksum]

\* Bun.file(filepath).exists() and the streamed response
DownloadRead(r) ==
    /\ req[r].kind = "download" /\ req[r].pc = "read"
    /\ LET resp == downloadRead(blobs, req[r].fileRecord)
       IN req' = [req EXCEPT ![r] =
             IF resp.status = 404
             THEN Respond(r, 404, "File not found on disk")
             ELSE [req[r] EXCEPT !.pc = "done", !.status = 200,
                                 !.body = resp.body]]
    /\ UNCHANGED <<files, blobs, clock, obs, faults>>

(* -------------------------- specification ------------------------------ *)
Next ==
    \E r \in Reqs :
        \/ UploadBegin(r)
        \/ UploadInsert(r)
        \/ UploadWriteOk(r)
        \/ UploadWriteFail(r)
        \/ DeleteBegin(r)
        \/ DeleteMeta(r)
        \/ DeleteRm(r)

Spec == Init /\ [][Next]_vars

\* uploads and deletes together with downloads
NextRead ==
    \/ Next
    \/ \E r \in Reqs : DownloadBegin(r) \/ DownloadRead(r)

SpecRead == Init /\ [][NextRead]_vars

\* The instance stops (or the request is torn down) while the handler is
\* suspended in `await Bun.write`: the handler has no finally block and no
\* abort handling, its only path to dbService.deleteFile is catch (diskError),
\* so nothing more of it runs.
UploadAbort(r) ==
    /\ req[r].kind = "upload" /\ req[r].pc = "write"
    /\ req' = [req EXCEPT ![r].pc = "aborted"]
    /\ UNCHANGED <<files, blobs, clock, obs, faults>>

NextAbort == Next \/ \E r \in Reqs : UploadAbort(r)

SpecAbort == Init /\ [][NextAbort]_vars

TypeOK ==
    /\ \A row \in files : row.filename \in Keys /\ row.original_name \in Names
    /\ clock \in 1..(MaxReq + 1)
    /\ \A r \in Reqs : req[r].kind \in {"none", "upload", "delete", "download", "stats"}

(* ------------------ GET /api/files/stats (statistics) ------------------ *)
\* SELECT COUNT(*), SUM(size) FROM files GROUP BY uploaded_instance, reduced
\* to instanceDistribution
getInstanceStats(tbl) ==
    [i \in {row.uploaded_instance : row \in tbl} |->
        LET rows == {row \in tbl : row.uploaded_instance = i}
        IN [files |-> Cardinality(rows), size |-> SumSize(rows)]]

\* getStorageStats, first statement: the overall COUNT(*) and SUM(size); an
\* error makes getStorageStats return null, which the route sends as is
StatsOverall(r) ==
    /\ CanStart(r)
    /\ \E dbFails \in BOOLEAN :
        LET started == [req[r] EXCEPT !.kind = "stats"]
        IN /\ faults' = NoteDb(dbFails)
           /\ req' = [req EXCEPT ![r] =
                 IF dbFails
                 THEN [started EXCEPT !.pc = "done", !.status = 200]
                 ELSE [started EXCEPT !.pc = "instances",
                          !.stats = getStorageStats(files, FALSE)]]
           /\ UNCHANGED <<files, blobs, clock, obs>>

\* getStorageStats, second statement, a query of its own outside any
\* transaction: the per-instance counts and sizes of the table as it is now
StatsInstances(r) ==
    /\ req[r].kind = "stats" /\ req[r].pc = "instances"
    /\ \E dbFails \in BOOLEAN :
        /\ faults' = NoteDb(dbFails)
        /\ req' = [req EXCEPT ![r] =
              IF dbFails
              THEN [req[r] EXCEPT !.pc = "done", !.status = 200,
                                  !.stats = NoStats]
              ELSE [req[r] EXCEPT !.pc = "done", !.status = 200,
                       !.instanceDistribution = getInstanceStats(files)]]
        /\ UNCHANGED <<files, blobs, clock, obs>>

NextStats ==
    \/ Next
    \/ \E r \in Reqs : StatsOverall(r) \/ StatsInstances(r)

SpecStats == Init /\ [][NextStats]_vars

(* ----------- sequential, failure-free runs of the handlers ------------- *)
\* request r is served while no other request is in flight
Sequential(r) == \A q \in Reqs \ {r} : req[q].pc \in {"idle", "done"}
NoFault == ~faults.db /\ ~faults.fs

SeqUploadBegin(r) == Sequential(r) /\ UploadBegin(r) /\ NoFault'
SeqUploadInsert(r) == Sequential(r) /\ UploadInsert(r) /\ NoFault'
SeqUploadWriteOk(r) == Sequential(r) /\ UploadWriteOk(r) /\ NoFault'
SeqDeleteBegin(r) == Sequential(r) /\ DeleteBegin(r) /\ NoFault'
SeqDeleteMeta(r) == Sequential(r) /\ DeleteMeta(r) /\ NoFault'
SeqDeleteRm(r) == Sequential(r) /\ DeleteRm(r) /\ NoFault'

NextSeq ==
    \E r \in Reqs :
        \/ SeqUploadBegin(r)
        \/ SeqUploadInsert(r)
        \/ SeqUploadWriteOk(r)
        \/ SeqDeleteBegin(r)
        \/ SeqDeleteMeta(r)
        \/ SeqDeleteRm(r)

SpecSeq == Init /\ [][NextSeq]_vars

(* ------------- the PHP implementation (ci4-file-api) ------------------- *)
\* The PHP handlers as functions on a store [files, blobs, clock] of their
\* own, applied to the same requests in the same order.
PhpInit == [files |-> {}, blobs |-> [k \in Keys |-> NoBlob], clock |-> 1]

\* FileModel::findByOriginalName: most recent row of the name, or null
findByOriginalName(tbl, name) ==
    LET rows == SelectByOriginalName(tbl, name)
    IN IF rows = {} THEN NoRec
       ELSE CHOOSE row \in rows :
                \A other \in rows : other.uploaded_at <= row.uploaded_at

\* FileModel::deleteByOriginalName
deleteByOriginalName(tbl, name) == tbl \ SelectByOriginalName(tbl, name)

\* FileModel::insertWithDuplicateCheck: the existing row of the (checksum,
\* size), else the inserted row, else null when validation (is_unique
\* filename, size greater_than 0) or the table's constraints refuse it
insertWithDuplicateCheck(tbl, data, t) ==
    LET existing == SelectByChecksumSize(tbl, data.checksum, data.size)
        row == NewRow(data, t)
    IN IF existing # {}
       THEN [tbl |-> tbl, rec |-> CHOOSE x \in existing : TRUE]
       ELSE IF InsertError(tbl, row) # "none"
       THEN [tbl |-> tbl, rec |-> NoRec]
       ELSE [tbl |-> tbl \cup {row}, rec |-> row]

\* FileController::create with a working disk and database
FileController_create(store, name, file, filename, instance) ==
    IF file = NoFile \/ file.size > 100 * 1024 * 1024 THEN store
    ELSE
    LET fileData == [filename |-> filename, original_name |-> name,
                     size |-> file.size,
                     checksum |-> calculateChecksum(file),
                     uploaded_instance |-> instance]
        res == insertWithDuplicateCheck(store.files, fileData, store.clock)
        isDuplicate == res.rec.filename # filename
    IN IF res.rec = NoRec THEN store
       ELSE [files |-> res.tbl,
             blobs |-> IF isDuplicate THEN store.blobs
                       ELSE [store.blobs EXCEPT ![filename] = file.bytes],
             clock |-> IF res.rec \in store.files THEN store.clock
                       ELSE store.clock + 1]

\* FileController::delete with a working disk and database
FileController_delete(store, name) ==
    LET fileRecord == findByOriginalName(store.files, name)
    IN IF fileRecord = NoRec THEN store
       ELSE [store EXCEPT
                !.files = deleteByOriginalName(store.files, name),
                !.blobs = [store.blobs EXCEPT ![fileRecord.filename] = NoBlob]]

\* the PHP store after the requests 1..n that have returned
RECURSIVE PhpRun(_)
PhpRun(n) ==
    IF n = 0 THEN PhpInit
    ELSE LET store == PhpRun(n - 1)
         IN IF req[n].pc # "done" THEN store
            ELSE IF req[n].kind = "upload"
            THEN FileController_create(store, req[n].name, req[n].file,
                                       req[n].filename, instanceId(n))
            ELSE IF req[n].kind = "delete"
            THEN FileController_delete(store, req[n].name)
            ELSE store

(* -------------- the transactions with their row locks ------------------ *)
\* Uploads and deletes again, with insertFile's and deleteFile's
\* transactions split at their SELECT ... FOR UPDATE: req[r].locked holds the
\* ids of the rows the open transaction of request r has locked.
LockedByOther(r, rows) ==
    \E q \in Reqs \ {r} : \E row \in rows : row.id \in req[q].locked

\* entry of the upload handler up to the call of dbService.insertFile
LockUploadBegin(r) ==
    /\ CanStart(r)
    /\ \E name \in Names, file \in Contents \cup {NoFile, Oversized, EmptyFile} :
       \E stamp \in StampsFor(file) :
        LET started == [req[r] EXCEPT !.kind = "upload", !.name = name,
                                      !.file = file]
        IN
        IF file = NoFile THEN
            /\ stamp = 1
            /\ req' = [req EXCEPT ![r] = [started EXCEPT !.pc = "done",
                            !.status = 400, !.error = "No file provided"]]
            /\ UNCHANGED <<files, blobs, clock, obs, faults>>
        ELSE IF TooLarge(file) THEN
            /\ stamp = 1
            /\ req' = [req EXCEPT ![r] = [started EXCEPT !.pc = "done",
                            !.status = 413,
                            !.error = "File too large (max 100MB)"]]
            /\ UNCHANGED <<files, blobs, clock, obs, faults>>
        ELSE
            /\ req' = [req EXCEPT ![r] = [started EXCEPT
                            !.filename = GenFilename(stamp, name),
                            !.pc = "select"]]
            /\ obs' = [obs EXCEPT ![r].hashed = TRUE]
            /\ UNCHANGED <<files, blobs, clock, faults>>

\* insertFile: sql.begin and SELECT ... WHERE checksum AND size FOR UPDATE.
\* The statement waits while another transaction holds the lock of a
\* matching row; no lock_timeout or statement_timeout is configured, so it
\* has no other way out. Once granted it returns the rows as they are then.
LockSelect(r) ==
    /\ req[r].kind = "upload" /\ req[r].pc = "select"
    /\ LET existing == insertFileSelect(files, FileData(r))
       IN /\ ~LockedByOther(r, existing)
          /\ \E dbFails \in BOOLEAN :
              IF dbFails THEN
                  /\ req' = [req EXCEPT ![r] = Respond(r, 409,
                        "Failed to save file metadata or duplicate detected")]
                  /\ obs' = [obs EXCEPT ![r].insertErr = "db"]
                  /\ faults' = NoteDb(TRUE)
                  /\ UNCHANGED <<files, blobs, clock>>
              ELSE IF existing # {} THEN
                  /\ req' = [req EXCEPT ![r] = [req[r] EXCEPT
                        !.pc = "dupCommit",
                        !.fileRecord = CHOOSE row \in existing : TRUE,
                        !.locked = {row.id : row \in existing}]]
                  /\ UNCHANGED <<files, blobs, clock, obs, faults>>
              ELSE
                  /\ req' = [req EXCEPT ![r] = [req[r] EXCEPT
                        !.pc = "insert", !.txStart = clock]]
                  /\ clock' = clock + 1
                  /\ UNCHANGED <<files, blobs, obs, faults>>

\* insertFile: return existing[0]; the COMMIT releases the row lock
LockDupCommit(r) ==
    /\ req[r].kind = "upload" /\ req[r].pc = "dupCommit"
    /\ req' = [req EXCEPT ![r] = [req[r] EXCEPT !.pc = "write",
                                                !.locked = {}]]
    /\ UNCHANGED <<files, blobs, clock, obs, faults>>

\* catch (diskError): the compensating deleteFile is a transaction of its
\* own and waits for the locks on the rows of the name like any other
LockUploadWriteFail(r) ==
    /\ ~LockedByOther(r, SelectByOriginalName(files, req[r].name))
    /\ UploadWriteFail(r)

\* deleteFile: sql.begin and SELECT filename ... WHERE original_name FOR
\* UPDATE; throws "File not found" on no row (deleteFile returns false)
LockDeleteSelect(r) ==
    /\ req[r].kind = "delete" /\ req[r].pc = "deleteMeta"
    /\ LET rows == SelectByOriginalName(files, req[r].name)
       IN /\ ~LockedByOther(r, rows)
          /\ \E dbFails \in BOOLEAN :
              /\ faults' = NoteDb(dbFails)
              /\ req' = [req EXCEPT ![r] =
                    IF dbFails \/ rows = {}
                    THEN Respond(r, 500, "Failed to delete file metadata")
                    ELSE [req[r] EXCEPT !.pc = "deleteCommit",
                                        !.locked = {row.id : row \in rows}]]
              /\ UNCHANGED <<files, blobs, clock, obs>>

\* deleteFile: DELETE ... WHERE original_name and COMMIT, which releases the
\* locks; the DELETE waits for rows of the name locked by others
LockDeleteCommit(r) ==
    /\ req[r].kind = "delete" /\ req[r].pc = "deleteCommit"
    /\ ~LockedByOther(r, SelectByOriginalName(files, req[r].name))
    /\ \E dbFails \in BOOLEAN :
        LET res == deleteFile(files, req[r].name, dbFails)
        IN /\ files' = res.tbl
           /\ faults' = NoteDb(dbFails)
           /\ req' = [req EXCEPT ![r] =
                 IF res.deleted
                 THEN [req[r] EXCEPT !.pc = "rm", !.locked = {}]
                 ELSE [Respond(r, 500, "Failed to delete file metadata")
                          EXCEPT !.locked = {}]]
           /\ UNCHANGED <<blobs, clock, obs>>

\* the steps of the upload handler of request r
UploadStep(r) ==
    \/ LockSelect(r)
    \/ LockDupCommit(r)
    \/ UploadInsert(r)
    \/ UploadWriteOk(r)
    \/ LockUploadWriteFail(r)

NextLock ==
    \E r \in Reqs :
        \/ LockUploadBegin(r)
        \/ UploadStep(r)
        \/ DeleteBegin(r)
        \/ LockDeleteSelect(r)
        \/ LockDeleteCommit(r)
        \/ DeleteRm(r)

SpecLock == Init /\ [][NextLock]_vars

(* ======================= properties of the claims ====================== *)
Finished(r) == req[r].pc \in {"done", "aborted"}
UploadInFlight ==
    \E r \in Reqs : req[r].kind = "upload" /\ ~Finished(r)
PastInsertFile(r) ==
    /\ req[r].kind = "upload"
    /\ req[r].pc \in {"write", "done"}
    /\ req[r].status \notin {400, 413}
ErrDiskFailure == "Failed to save file to disk"
ErrUploadFailure == "Failed to upload file"
RowOf(r) == {row \in files : row.id = req[r].fileRecord.id}

\* C1: (original claim) every insertFile call that loses the race on the
\* unique (checksum, size) index still returns a record, the winner's, and
\* is not answered with the metadata failure.
C1_LoserGetsWinnerRecord ==
    \A r \in Reqs :
        (PastInsertFile(r) /\ obs[r].insertErr = "dup_checksum_size") =>
            /\ req[r].fileRecord # NoRec
            /\ req[r].status # 409

\* C2: the table never holds two rows with the same (checksum, size) nor
\* two rows with the same filename (storage key).
C2_UniqueRows ==
    \A x, y \in files :
        x # y => /\ <<x.checksum, x.size>> # <<y.checksum, y.size>>
                 /\ x.filename # y.filename

\* C2 witness: both unique indexes have rejected an INSERT and two rows of
\* different content are stored.
C2_Witness ==
    /\ Cardinality(files) >= 2
    /\ \E r \in Reqs : obs[r].insertErr \in {"dup_checksum_size", "dup_filename"}

\* C3: (original claim) when every request is an upload of the same content,
\* all have returned and no failure was injected, exactly one of them wrote
\* a blob, exactly one blob and one row exist, and every request carries the
\* id of that one row.
C3_OneBlobWrite ==
    LET ups == {r \in Reqs : req[r].kind = "upload"}
    IN  ( /\ ups = Reqs
          /\ \A r \in Reqs : req[r].pc = "done" /\ req[r].file \in Contents
          /\ \A r \in Reqs : req[r].file = req[1].file
          /\ ~faults.db /\ ~faults.fs )
        => /\ Cardinality({r \in Reqs : obs[r].wrote}) = 1
           /\ Cardinality({k \in Keys : blobs[k] # NoBlob}) = 1
           /\ Cardinality(files) = 1
           /\ \A r \in Reqs : RowOf(r) = files

\* C4: (original claim) the step that finishes an upload whose insertFile
\* returned an already existing row leaves the blob store as it was.
C4_DuplicateLeavesBlobs ==
    [][\A r \in Reqs :
          ( /\ req[r].kind = "upload" /\ req[r].pc = "write"
            /\ ~obs[r].isNew
            /\ req'[r].pc = "done" )
          => blobs' = blobs]_vars

\* C5: when an upload inserted a new row, its blob write failed and the
\* compensating deleteFile succeeded, the request has returned the
\* disk-failure 500 and the row it inserted is not in the table, then and
\* ever after.  (A row for the same content can only be one that another
\* upload inserted later, under another id.)
C5_CompensationRemovesRow ==
    \A r \in Reqs :
        (obs[r].isNew /\ obs[r].comp = "ok") =>
            /\ req[r].pc = "done"
            /\ req[r].status = 500 /\ req[r].error = ErrDiskFailure
            /\ RowOf(r) = {}

\* C5 witness: a request that inserted a new row has compensated with
\* success while another request's row is stored.
C5_Witness ==
    \E r \in Reqs :
        /\ obs[r].isNew /\ obs[r].comp = "ok" /\ req[r].status = 500
        /\ files # {}

\* C6: (original claim) the compensation step of an upload removes no row
\* other than the one this upload inserted; a duplicate upload's
\* compensation removes nothing.
C6_CompensationRemovesOnlyOwnRow ==
    [][\A r \in Reqs :
          ( /\ req[r].kind = "upload" /\ req[r].pc = "write"
            /\ req'[r].pc = "done" /\ obs'[r].comp # "none" )
          => \A row \in files \ files' :
                 obs[r].isNew /\ row.id = req[r].fileRecord.id]_vars

RowsHaveBlobs == \A row \in files : blobs[row.filename] # NoBlob
NoCompensationFailed ==
    \A r \in Reqs : obs[r].comp \notin {"failed", "orphaned"}
NoKeyCollision ==
    \A r1, r2 \in Reqs :
        ( /\ r1 # r2
          /\ req[r1].kind = "upload" /\ req[r2].kind = "upload"
          /\ req[r1].filename # NoKey )
        => req[r1].filename # req[r2].filename

C8_OrphanOutcomeDistinct ==
    \A r \in Reqs :
        obs[r].comp = "orphaned" =>
            /\ req[r].error \notin {ErrDiskFailure, ErrUploadFailure}
            /\ \A q \in Reqs :
                   obs[q].comp = "ok" =>
                       <<req[q].status, req[q].error>>
                           # <<req[r].status, req[r].error>>

\* C9: (original claim) an upload that ended by abort after inserting its
\* row does not leave that row in the table without a blob.
C9_AbortStillCompensates ==
    \A r \in Reqs :
        (req[r].pc = "aborted" /\ obs[r].isNew) =>
            \A row \in RowOf(r) : blobs[row.filename] # NoBlob

\* C10: a delete request arriving when no row has its name is answered 404
\* in its first step, and that step changes neither the table nor the blob
\* store.
C10_DeleteMissingIsNotFound ==
    [][\A r \in Reqs :
          ( /\ req[r].kind = "none" /\ req'[r].kind = "delete"
            /\ SelectByOriginalName(files, req'[r].name) = {} )
          => /\ req'[r].pc = "done"
             /\ req'[r].status = 404 /\ req'[r].error = "File not found"
             /\ files' = files /\ blobs' = blobs]_vars

\* C10 witness: a delete of a name without row was answered 404 while rows
\* of another name and their blobs are stored, and no database failure was
\* injected.
C10_Witness ==
    /\ ~faults.db
    /\ \E r \in Reqs :
        /\ req[r].kind = "delete" /\ req[r].status = 404
        /\ SelectByOriginalName(files, req[r].name) = {}
    /\ files # {} /\ RowsHaveBlobs

(* ----------------------- deletion and lookups -------------------------- *)
DeleteCommitted(d) ==
    /\ req[d].kind = "delete"
    /\ req[d].pc = "rm" \/ (req[d].pc = "done" /\ req[d].status = 200)
DeleteReturnedOk(d) ==
    req[d].kind = "delete" /\ req[d].pc = "done" /\ req[d].status = 200
MostRecent(rows, row) ==
    row \in rows /\ \A other \in rows : other.uploaded_at <= row.uploaded_at

\* C11: the metadata delete of a successful Delete(D) leaves no row named D;
\* once a Delete(D) has succeeded, a row named D can appear only by the
\* INSERT of an upload named D; and while no row is named D every download
\* or delete lookup of D is answered 404, whatever the blob store holds.
C11_DeletedNameNotFound ==
    [][/\ \A d \in Reqs :
            ( /\ req[d].kind = "delete" /\ req[d].pc = "deleteMeta"
              /\ req'[d].pc = "rm" )
            => SelectByOriginalName(files', req[d].name) = {}
       /\ \A d \in Reqs :
            ( /\ DeleteCommitted(d)
              /\ SelectByOriginalName(files, req[d].name) = {}
              /\ SelectByOriginalName(files', req[d].name) # {} )
            => \E u \in Reqs :
                   /\ req[u].kind = "upload" /\ req[u].name = req[d].name
                   /\ req[u].pc = "insert" /\ obs'[u].isNew
       /\ \A d, q \in Reqs :
            ( /\ DeleteReturnedOk(d)
              /\ SelectByOriginalName(files, req[d].name) = {}
              /\ req[q].kind = "none"
              /\ req'[q].kind \in {"download", "delete"}
              /\ req'[q].name = req[d].name )
            => /\ req'[q].pc = "done" /\ req'[q].status = 404
               /\ req'[q].error = "File not found"]_vars

\* C11 witness: Delete(D) has succeeded, its blob is still on disk, no row
\* is named D while another row is stored, and a download of D got 404.
C11_Witness ==
    \E d, q \in Reqs :
        /\ DeleteReturnedOk(d)
        /\ blobs[req[d].filename] # NoBlob
        /\ SelectByOriginalName(files, req[d].name) = {}
        /\ req[q].kind = "download" /\ req[q].name = req[d].name
        /\ req[q].status = 404

\* C12: (original claim) the metadata delete of Delete(D) removes exactly
\* one row, the most recent row named D.
C12_DeleteRemovesOneRow ==
    [][\A d \in Reqs :
          ( /\ req[d].kind = "delete" /\ req[d].pc = "deleteMeta"
            /\ req'[d].pc = "rm" )
          => /\ Cardinality(files \ files') = 1
             /\ \A row \in files \ files' :
                    MostRecent(SelectByOriginalName(files, req[d].name), row)]_vars

\* C13: the metadata-delete step of Delete leaves the blob store alone and
\* ends the request with 500 exactly when it removed no row; the blob is
\* removed only in the following step, which answers 200 and leaves the
\* table alone whether or not the blob went away.
C13_MetadataBeforeBlob ==
    [][\A d \in Reqs :
          /\ ( req[d].kind = "delete" /\ req[d].pc = "deleteMeta"
               /\ req'[d].pc # "deleteMeta" )
             => /\ blobs' = blobs
                /\ IF files' = files
                   THEN /\ req'[d].pc = "done" /\ req'[d].status = 500
                        /\ req'[d].error = "Failed to delete file metadata"
                   ELSE req'[d].pc = "rm"
          /\ ( req[d].kind = "delete" /\ req[d].pc = "rm"
               /\ req'[d].pc # "rm" )
             => /\ req'[d].pc = "done" /\ req'[d].status = 200
                /\ files' = files
                /\ \A k \in Keys : k # req[d].filename => blobs'[k] = blobs[k]]_vars

\* C13 witness: one delete ended 500 on a failed metadata delete, another
\* ended 200 although its blob is still on disk.
C13_Witness ==
    \E d1, d2 \in Reqs :
        /\ req[d1].kind = "delete" /\ req[d1].status = 500
        /\ DeleteReturnedOk(d2) /\ blobs[req[d2].filename] # NoBlob
        /\ SelectByOriginalName(files, req[d2].name) = {}

\* C14: (original claim) when content was uploaded as A (new record) and then
\* as B (existing record returned), B being the name of no other upload and
\* no failure injected: the second response carries the first record's id
\* and duplicate = true, no row is named B, and once Delete(A) has succeeded
\* no row is named A either.
C14_DuplicateNeverOwnRecord ==
    \A u1, u2 \in Reqs :
        ( /\ req[u1].kind = "upload" /\ req[u2].kind = "upload"
          /\ req[u1].status = 201 /\ req[u2].status = 201
          /\ obs[u1].isNew /\ ~obs[u2].isNew
          /\ req[u1].file = req[u2].file
          /\ req[u1].name # req[u2].name
          /\ \A w \in Reqs : (req[w].kind = "upload" /\ w # u2)
                                 => req[w].name # req[u2].name
          /\ ~faults.db /\ ~faults.fs )
        => /\ req[u2].fileRecord.id = req[u1].fileRecord.id
           /\ "duplicate" \in DOMAIN UploadResponseBody(u2)
           /\ UploadResponseBody(u2).duplicate = TRUE
           /\ getFileByOriginalName(files, req[u2].name, FALSE) = NoRec
           /\ \A d \in Reqs :
                  (DeleteReturnedOk(d) /\ req[d].name = req[u1].name)
                      => getFileByOriginalName(files, req[u1].name, FALSE) = NoRec

\* what a download of `name` that runs without interruption answers
Served(tbl, store, name) ==
    LET fileRecord == getFileByOriginalName(tbl, name, FALSE)
    IN IF fileRecord = NoRec
       THEN [status |-> 404, body |-> NoBlob, checksum |-> <<>>]
       ELSE downloadRead(store, fileRecord)
ServesUpload(resp, u) ==
    /\ resp.status = 200
    /\ resp.body = req[u].file.bytes
    /\ calculateChecksum([bytes |-> resp.body, size |-> req[u].file.size])
           = resp.checksum

\* C15: (original claim) when an upload returns 201 for name D, a download
\* of D served right then returns the upload's bytes, and their checksum is
\* the served record's checksum.
C15_DownloadReturnsUpload ==
    [][\A u \in Reqs :
          ( /\ req[u].kind = "upload" /\ req[u].pc = "write"
            /\ req'[u].pc = "done" /\ req'[u].status = 201 )
          => ServesUpload(Served(files', blobs', req[u].name), u)]_vars

\* C15: (amended) the same for an upload that inserted a new record which,
\* when the upload returns, is still in the table and the most recent row
\* named D.
C15_DownloadReturnsNewUpload ==
    [][\A u \in Reqs :
          ( /\ req[u].kind = "upload" /\ req[u].pc = "write"
            /\ req'[u].pc = "done" /\ req'[u].status = 201
            /\ obs[u].isNew
            /\ \E row \in RowOf(u) :
                   MostRecent(SelectByOriginalName(files, req[u].name), row) )
          => ServesUpload(Served(files', blobs', req[u].name), u)]_vars

\* C15 witness: two records share the name D, the more recent one was
\* inserted by an upload that returned 201, and a download of D returned
\* that upload's bytes.
C15_Witness ==
    \E u, q \in Reqs :
        /\ req[u].kind = "upload" /\ req[u].status = 201 /\ obs[u].isNew
        /\ Cardinality(SelectByOriginalName(files, req[u].name)) = 2
        /\ \E row \in RowOf(u) :
               MostRecent(SelectByOriginalName(files, req[u].name), row)
        /\ req[q].kind = "download" /\ req[q].name = req[u].name
        /\ req[q].status = 200 /\ req[q].body = req[u].file.bytes

(* ------------------- re-ingestion after a delete ----------------------- *)
HasContent(row, file) ==
    row.checksum = calculateChecksum(file) /\ row.size = file.size

\* a Delete has committed on a record of this content, and every record of
\* this content an upload has inserted so far is one a committed Delete
\* had located
DeletedOnlyRecord(file) ==
    /\ \E d \in Reqs : DeleteCommitted(d) /\ HasContent(req[d].fileRecord, file)
    /\ \A w \in Reqs :
           (req[w].kind = "upload" /\ req[w].file = file /\ obs[w].isNew)
           => \E d \in Reqs : /\ DeleteCommitted(d)
                              /\ req[d].fileRecord.id = req[w].fileRecord.id

\* C16: an upload of content C that starts after a Delete of C's only record
\* has committed finds no match; its INSERT, when no other row took the
\* storage key meanwhile and the database does not fail, creates a new row
\* under the upload's own storage key whose id is not the deleted record's;
\* and its blob write stores the bytes under that key.
C16_FreshRecordAfterDelete ==
    [][\A u \in Reqs :
          /\ ( /\ req[u].kind = "none" /\ req'[u].kind = "upload"
               /\ req'[u].file \in Contents
               /\ DeletedOnlyRecord(req'[u].file)
               /\ ~faults'.db )
             => /\ req'[u].pc = "insert"
                /\ req'[u].fileRecord = NoRec
          /\ ( /\ req[u].kind = "upload" /\ req[u].pc = "insert"
               /\ req'[u].pc # "insert"
               /\ DeletedOnlyRecord(req[u].file)
               /\ ~ViolatesFilenameUnique(files, FileData(u))
               /\ ~faults'.db )
             => /\ obs'[u].isNew /\ req'[u].pc = "write"
                /\ files' = files \cup {req'[u].fileRecord}
                /\ req'[u].fileRecord \notin files
                /\ req'[u].fileRecord.filename = req[u].filename
                /\ HasContent(req'[u].fileRecord, req[u].file)
                /\ \A d \in Reqs :
                       DeleteCommitted(d)
                       => req[d].fileRecord.id # req'[u].fileRecord.id
          /\ ( /\ req[u].kind = "upload" /\ req[u].pc = "write"
               /\ obs[u].isNew
               /\ req'[u].pc = "done" /\ req'[u].status = 201 )
             => /\ blobs'[req[u].fileRecord.filename] = req[u].file.bytes
                /\ obs'[u].wrote]_vars

\* C16 witness: a record of content C was deleted, and a later upload of C
\* returned 201 with a new record of its own and its blob on disk.
C16_Witness ==
    \E u, d \in Reqs :
        /\ DeleteReturnedOk(d) /\ HasContent(req[d].fileRecord, req[u].file)
        /\ req[u].kind = "upload" /\ req[u].status = 201 /\ obs[u].isNew
        /\ req[u].fileRecord.id > req[d].fileRecord.id
        /\ RowOf(u) # {}
        /\ blobs[req[u].fileRecord.filename] = req[u].file.bytes

(* --------------------------- validation -------------------------------- *)
\* C17: an upload whose size exceeds maxSize is answered 413 in its first
\* step, before the checksum is computed, and that step changes neither the
\* table nor the blob store.
C17_OversizedRejected ==
    [][\A r \in Reqs :
          ( /\ req[r].kind = "none" /\ req'[r].kind = "upload"
            /\ req'[r].file.size > 100 * 1024 * 1024 )
          => /\ req'[r].pc = "done" /\ req'[r].status = 413
             /\ req'[r].error = "File too large (max 100MB)"
             /\ ~obs'[r].hashed /\ ~obs'[r].isNew /\ ~obs'[r].wrote
             /\ req'[r].fileRecord = NoRec
             /\ files' = files /\ blobs' = blobs]_vars

\* C17 witness: an oversized upload was answered 413 while the table holds a
\* row of an accepted upload.
C17_Witness ==
    \E r, u \in Reqs :
        /\ req[r].kind = "upload" /\ req[r].file = Oversized
        /\ req[r].status = 413
        /\ req[u].kind = "upload" /\ req[u].status = 201 /\ RowOf(u) # {}

(* ----------------------- statistics refresh ---------------------------- *)
\* C18: when the statistics refresh after a successful blob write fails, the
\* upload still answers 201 with the record it holds, the table is as it
\* was and the blob is stored.
C18_StatsFailureIgnored ==
    [][\A u \in Reqs :
          ( /\ req[u].kind = "upload" /\ req[u].pc = "write"
            /\ obs'[u].stats = "failed" )
          => /\ req'[u].pc = "done" /\ req'[u].status = 201
             /\ req'[u].fileRecord = req[u].fileRecord
             /\ req[u].fileRecord # NoRec
             /\ files' = files
             /\ blobs'[req[u].filename] = req[u].file.bytes]_vars

\* C18 witness: an upload that inserted a row returned 201 although its
\* statistics refresh failed; row and blob are there.
C18_Witness ==
    \E u \in Reqs :
        /\ req[u].kind = "upload" /\ obs[u].stats = "failed"
        /\ obs[u].isNew /\ req[u].status = 201
        /\ RowOf(u) # {}
        /\ blobs[req[u].filename] = req[u].file.bytes

(* ---------------------------- immutability ----------------------------- *)
\* C19: in every step a row id present before and after keeps its whole
\* row, and the table changes only by gaining one new row or by losing rows.
C19_RecordsImmutable ==
    [][/\ \A x \in files : \A y \in files' : x.id = y.id => x = y
       /\ \/ files' = files
          \/ \E row \in files' : row \notin files /\ files' = files \cup {row}
          \/ files' \subseteq files]_vars

\* C19 witness: a row inserted by an upload is in the table after another
\* record was deleted.
C19_Witness ==
    \E u, d \in Reqs :
        /\ req[u].kind = "upload" /\ obs[u].isNew /\ RowOf(u) # {}
        /\ DeleteReturnedOk(d)
        /\ req[d].fileRecord.id < req[u].fileRecord.id

(* ----------------------------- lock waits ------------------------------ *)
WaitingOnRowLock(u) ==
    /\ req[u].kind = "upload" /\ req[u].pc = "select"
    /\ LockedByOther(u, insertFileSelect(files, FileData(u)))

SameKey(f, g) == calculateChecksum(f) = calculateChecksum(g) /\ f.size = g.size

\* C21: (original claim) no two insertFile transactions for the same
\* (checksum, size) are both past an empty SELECT ... FOR UPDATE and not yet
\* committed: the second one's select cannot complete empty while the first
\* is open.
C21_SelectSerializes ==
    \A u1, u2 \in Reqs :
        ( /\ u1 # u2
          /\ req[u1].kind = "upload" /\ req[u2].kind = "upload"
          /\ SameKey(req[u1].file, req[u2].file) )
        => ~(req[u1].pc = "insert" /\ req[u2].pc = "insert")

\* C22: an insertFile call that finds the row an earlier call inserted for
\* the same (checksum, size) returns that row (the first call's id and
\* storage key) whatever name and storage key its own candidate carries, and
\* leaves the table as it is.
C22_SequentialIdempotent ==
    [][\A u, w \in Reqs :
          ( /\ req[u].kind = "none" /\ req'[u].kind = "upload"
            /\ req'[u].file \in Contents
            /\ obs'[u].insertErr # "db"
            /\ req[w].kind = "upload" /\ obs[w].isNew
            /\ SameKey(req[w].file, req'[u].file)
            /\ RowOf(w) # {} )
          => /\ req'[u].fileRecord = req[w].fileRecord
             /\ req'[u].fileRecord.filename = req[w].filename
             /\ req'[u].pc = "write"
             /\ files' = files]_vars

\* C22 witness: an upload under another name and another storage key got
\* the record of the upload that first inserted the content, and the table
\* holds that one row only.
C22_Witness ==
    \E u, w \in Reqs :
        /\ req[w].kind = "upload" /\ obs[w].isNew /\ RowOf(w) # {}
        /\ req[u].kind = "upload" /\ ~obs[u].isNew /\ req[u].status = 201
        /\ req[u].fileRecord = req[w].fileRecord
        /\ req[u].name # req[w].name
        /\ req[u].filename # req[w].filename
        /\ Cardinality(files) = 1

(* ------------------------- independence -------------------------------- *)
AllReturned == \A r \in Reqs : req[r].pc \in {"idle", "done"}

\* C24: (original claim) when exactly two uploads of different content with
\* different storage keys run, with no database failure, each one that has
\* returned has the outcome it would have alone: 500 with no row when its
\* own blob write failed, else 201 with its row in the table and its blob on
\* disk.
C24_DifferentContentIndependent ==
    \A u1, u2 \in Reqs :
        ( /\ u1 # u2
          /\ req[u1].kind = "upload" /\ req[u2].kind = "upload"
          /\ req[u1].file \in Contents /\ req[u2].file \in Contents
          /\ ~SameKey(req[u1].file, req[u2].file)
          /\ req[u1].filename # req[u2].filename
          /\ \A q \in Reqs \ {u1, u2} : req[q].kind = "none"
          /\ ~faults.db
          /\ req[u1].pc = "done" )
        => IF obs[u1].comp # "none"
           THEN req[u1].status = 500 /\ RowOf(u1) = {}
           ELSE /\ req[u1].status = 201
                /\ RowOf(u1) # {}
                /\ blobs[req[u1].filename] = req[u1].file.bytes

\* C25: (original claim) when every request has returned and no database or
\* filesystem failure was injected, every blob on disk is the storage key of
\* a row, and there are as many blobs as rows.
C25_NoOrphanBlobs ==
    (AllReturned /\ ~faults.db /\ ~faults.fs)
    => /\ \A k \in Keys : blobs[k] # NoBlob => \E row \in files : row.filename = k
       /\ Cardinality({k \in Keys : blobs[k] # NoBlob}) = Cardinality(files)

\* C26: (original claim) when the only delete request returns 200 and no
\* failure was injected, no row it removed leaves its blob behind: the
\* storage key of every removed row whose blob had been written holds no
\* blob afterwards, unless a row uses the key.
C26_DeleteRemovesBlobsOfRemovedRows ==
    [][\A d \in Reqs :
          ( /\ req[d].kind = "delete" /\ req[d].pc = "rm"
            /\ req'[d].pc = "done" /\ req'[d].status = 200
            /\ \A q \in Reqs \ {d} : req[q].kind # "delete"
            /\ ~faults'.db /\ ~faults'.fs )
          => \A u \in Reqs :
                 ( /\ req[u].kind = "upload" /\ obs[u].isNew /\ obs[u].wrote
                   /\ req[u].name = req[d].name
                   /\ RowOf(u) = {} )
                 => \/ blobs'[req[u].fileRecord.filename] = NoBlob
                    \/ \E row \in files' :
                           row.filename = req[u].fileRecord.filename]_vars

\* C27: (original claim) with no database failure, a delete that located a
\* record which another delete of the same name then removed is answered 200
\* or 404, never with a server error.
C27_DeleteRaceNoServerError ==
    \A d1, d2 \in Reqs :
        ( /\ d1 # d2
          /\ req[d1].kind = "delete" /\ req[d1].pc = "done"
          /\ DeleteCommitted(d2) /\ req[d2].name = req[d1].name
          /\ ~faults.db )
        => req[d1].status \in {200, 404}

\* C28: (original claim) a download or delete is answered "File not found"
\* at its lookup only when no row has the requested name at that moment.
C28_NotFoundOnlyWhenAbsent ==
    [][\A q \in Reqs :
          ( /\ req[q].kind = "none"
            /\ req'[q].kind \in {"download", "delete"}
            /\ req'[q].status = 404 )
          => SelectByOriginalName(files, req'[q].name) = {}]_vars

(* ------------------- insert failures other than dedup ------------------ *)
\* C23: when insertFile's INSERT is refused because the payload is empty
\* (size > 0 violated) or because a row already holds the candidate's
\* storage key, insertFile returns no record: the table and the blob store
\* are unchanged and the request ends with 409 without writing a blob.
C23_InsertFailureIsConflict ==
    [][\A u \in Reqs :
          ( /\ req[u].kind = "upload" /\ req[u].pc = "insert"
            /\ req'[u].pc # "insert"
            /\ \/ req[u].file.size <= 0
               \/ \E row \in files : row.filename = req[u].filename )
          => /\ files' = files /\ blobs' = blobs
             /\ req'[u].fileRecord = NoRec
             /\ ~obs'[u].isNew /\ ~obs'[u].wrote
             /\ req'[u].pc = "done" /\ req'[u].status = 409
             /\ req'[u].error =
                    "Failed to save file metadata or duplicate detected"]_vars

\* C23 witness: one upload was refused for an empty payload and another for
\* a storage key that the row of a different content holds.
C23_Witness ==
    \E u1, u2 \in Reqs :
        /\ req[u1].kind = "upload" /\ req[u1].file = EmptyFile
        /\ obs[u1].insertErr = "check_size" /\ req[u1].status = 409
        /\ req[u2].kind = "upload" /\ obs[u2].insertErr = "dup_filename"
        /\ req[u2].status = 409
        /\ \E row \in files : /\ row.filename = req[u2].filename
                              /\ ~HasContent(row, req[u2].file)

(* --------------------------- statistics -------------------------------- *)
RECURSIVE SumDistribution(_, _)
SumDistribution(dist, field) ==
    IF DOMAIN dist = {} THEN 0
    ELSE LET i == CHOOSE x \in DOMAIN dist : TRUE
             rest == [j \in DOMAIN dist \ {i} |-> dist[j]]
         IN (IF field = "files" THEN dist[i].files ELSE dist[i].size)
            + SumDistribution(rest, field)

\* C29: (original claim) every snapshot getStorageStats returns is
\* consistent: totalFiles is the sum of the per-instance file counts and
\* totalSize the sum of the per-instance sizes.
C29_StatsSnapshotConsistent ==
    \A r \in Reqs :
        ( /\ req[r].kind = "stats" /\ req[r].pc = "done"
          /\ req[r].stats # NoStats )
        => /\ req[r].stats.totalFiles =
                  SumDistribution(req[r].instanceDistribution, "files")
           /\ req[r].stats.totalSize =
                  SumDistribution(req[r].instanceDistribution, "size")

(* ----------------------- the two implementations ---------------------- *)
RowsByContent(tbl) ==
    {<<row.original_name, row.checksum, row.size>> : row \in tbl}
BlobCount(store) == Cardinality({k \in Keys : store[k] # NoBlob})

\* C30: (original claim) after every sequential, failure-free sequence of
\* upload and delete requests the TypeScript store and the PHP store hold
\* the same rows (by displayName, checksum, size) and the same number of
\* blobs.
C30_SameStoreEffects ==
    AllReturned =>
        /\ RowsByContent(files) = RowsByContent(PhpRun(MaxReq).files)
        /\ BlobCount(blobs) = BlobCount(PhpRun(MaxReq).blobs)

====
